---- MODULE Spec2Model ----
(***************************************************************************)
(* lexless: removal of one speaker's segments from an audio track.         *)
(*                                                                         *)
(*   AudioProcessor  (src/lexless/audio_processor.py)                      *)
(*       cut_segments, normalize_audio, process_audio                      *)
(*   SpeakerDiarizer (src/lexless/speaker_diarization.py)                  *)
(*       get_speaker_segments, identify_interviewer,                       *)
(*       get_speaker_timestamps                                            *)
(*                                                                         *)
(* Samples are exact rationals <<num, den>> (den > 0, lowest terms).       *)
(* Times are whole ticks, TicksPerSecond ticks to the second, so that      *)
(* int(time * sample_rate) truncates a genuine fraction.                   *)
(***************************************************************************)
EXTENDS Integers, Sequences, FiniteSets, TLC

VARIABLES
    audio_file,         \* the samples of the file at audio_path
    audio,              \* the array load_audio returned, handed to cut_segments
    timestamps,         \* the caller's list of (start, end) ranges, in ticks
    smooth_transition,  \* fade duration, in ticks
    sample_rate,        \* AudioProcessor.sample_rate
    plan,               \* cut_segments' local, sorted timestamps_to_remove
    ranges,             \* (start_sample, end_sample) of every range processed
    samples_to_keep,    \* cut_segments' boolean mask
    processed_audio,    \* the array cut_segments / normalize_audio returned
    pc,                 \* position in process_audio
    error,              \* the exception that left process_audio, or "none"
    segments,           \* diarize's list of (start, end, speaker)
    detection_method,   \* get_speaker_timestamps' detection_method
    target_speaker,     \* get_speaker_timestamps' target_speaker, or None
    interviewer_id,     \* the selected speaker label
    removal,            \* the list get_speaker_timestamps returned
    sel_pc,             \* position in get_speaker_timestamps
    sel_error           \* the exception that left it, or "none"

vars == <<audio_file, audio, timestamps, smooth_transition, sample_rate, plan, ranges,
          samples_to_keep, processed_audio, pc, error, segments,
          detection_method, target_speaker, interviewer_id, removal, sel_pc,
          sel_error>>

audio_vars == <<audio_file, audio, timestamps, smooth_transition, sample_rate, plan,
                ranges, samples_to_keep, processed_audio, pc, error>>

sel_vars == <<segments, detection_method, target_speaker, interviewer_id,
              removal, sel_pc, sel_error>>

---------------------------------------------------------------------------
(* Bounds of the model.                                                    *)

MaxLen == 4
MaxRanges == 2
MaxTime == 3
MaxFade == 2
TicksPerSecond == 2
MaxNormLen == 3
MaxSegs == 3
MaxSegTime == 2

SampleRates == {3}

---------------------------------------------------------------------------
(* Exact arithmetic on samples.                                            *)

Min(a, b) == IF a <= b THEN a ELSE b

Max(a, b) == IF a >= b THEN a ELSE b

Abs(n) == IF n < 0 THEN -n ELSE n

RECURSIVE GCD(_, _)
GCD(a, b) == IF b = 0 THEN a ELSE GCD(b, a % b)

Rat(n, d) ==
    LET g == GCD(Abs(n), Abs(d))
        s == IF d < 0 THEN -1 ELSE 1
    IN  <<(s * n) \div g, (s * d) \div g>>

Zero == <<0, 1>>

One == <<1, 1>>

RAdd(x, y) == Rat(x[1] * y[2] + y[1] * x[2], x[2] * y[2])

RSub(x, y) == Rat(x[1] * y[2] - y[1] * x[2], x[2] * y[2])

RMul(x, y) == Rat(x[1] * y[1], x[2] * y[2])

RDiv(x, y) == Rat(x[1] * y[2], x[2] * y[1])

RAbs(x) == <<Abs(x[1]), x[2]>>

RLess(x, y) == x[1] * y[2] < y[1] * x[2]

\* int(time * self.sample_rate), time = ticks / TicksPerSecond
ToSample(ticks, rate) ==
    IF ticks * rate >= 0
        THEN (ticks * rate) \div TicksPerSecond
        ELSE -((-(ticks * rate)) \div TicksPerSecond)

---------------------------------------------------------------------------
(* cut_segments                                                            *)

\* tuple comparison of sorted(): by start, then by end
TupleLess(a, b) == a[1] < b[1] \/ (a[1] = b[1] /\ a[2] < b[2])

RECURSIVE Insert(_, _)
Insert(x, s) ==
    IF s = <<>> THEN <<x>>
    ELSE IF TupleLess(x, Head(s)) THEN <<x>> \o s
    ELSE <<Head(s)>> \o Insert(x, Tail(s))

RECURSIVE Sorted(_)
Sorted(s) ==
    IF s = <<>> THEN <<>>
    ELSE Insert(s[Len(s)], Sorted(SubSeq(s, 1, Len(s) - 1)))

\* as np.linspace would be with endpoint=False: the stop value is not reached
LinspaceOpen(start, stop, num) ==
    [k \in 1..num |->
        RAdd(start, RMul(<<k - 1, 1>>,
                         RDiv(RSub(stop, start), <<num, 1>>)))]

\* np.linspace(start, stop, num)
Linspace(start, stop, num) ==
    IF num = 1 THEN <<start>>
    ELSE [k \in 1..num |->
            RAdd(start, RMul(<<k - 1, 1>>,
                             RDiv(RSub(stop, start), <<num - 1, 1>>)))]

\* the indices (from 0) that the slice a[lo:hi] selects, 0 <= lo, 0 <= hi
SliceLen(a, lo, hi) == Max(0, Min(Len(a), hi) - Min(Len(a), lo))

\* a[lo:hi] *= gain is defined when the shapes agree or gain has one element
Broadcasts(a, lo, hi, gain) ==
    Len(gain) = SliceLen(a, lo, hi) \/ Len(gain) = 1

\* a[lo:hi] *= gain
ScaleSlice(a, lo, hi, gain) ==
    [j \in 1..Len(a) |->
        IF lo < j /\ j <= Min(Len(a), hi)
            THEN RMul(a[j], IF Len(gain) = 1 THEN gain[1] ELSE gain[j - lo])
            ELSE a[j]]

\* as the mask would be if the end sample of a range were removed too
ClearSliceInclusive(mask, lo, hi) ==
    [j \in 1..Len(mask) |-> IF lo < j /\ j <= hi + 1 THEN FALSE ELSE mask[j]]

\* samples_to_keep[lo:hi] = False
ClearSlice(mask, lo, hi) ==
    [j \in 1..Len(mask) |-> IF lo < j /\ j <= hi THEN FALSE ELSE mask[j]]

StartSample(r, rate) == Max(0, ToSample(r[1], rate))

EndSample(r, rate, len) == Min(len, ToSample(r[2], rate))

FadeSamples(fade, rate) == ToSample(fade, rate)

FadeStart(r, fade, rate) ==
    Max(0, StartSample(r, rate) - FadeSamples(fade, rate))

FadeEnd(r, fade, rate, len) ==
    Min(len, EndSample(r, rate, len) + FadeSamples(fade, rate))

FadesOut(r, fade, rate) == fade > 0 /\ StartSample(r, rate) > 0

FadesIn(r, fade, rate, len) == fade > 0 /\ EndSample(r, rate, len) < len

FadeOutArray(r, fade, rate) ==
    Linspace(One, Zero, StartSample(r, rate) - FadeStart(r, fade, rate))

FadeInArray(r, fade, rate, len) ==
    Linspace(Zero, One, FadeEnd(r, fade, rate, len) - EndSample(r, rate, len))

\* the fade-out multiplication of one range raises ValueError
FadeOutRaises(a, r, fade, rate) ==
    /\ FadesOut(r, fade, rate)
    /\ ~Broadcasts(a, FadeStart(r, fade, rate), StartSample(r, rate),
                   FadeOutArray(r, fade, rate))

ApplyFadeOut(a, r, fade, rate) ==
    IF FadesOut(r, fade, rate)
        THEN ScaleSlice(a, FadeStart(r, fade, rate), StartSample(r, rate),
                        FadeOutArray(r, fade, rate))
        ELSE a

ApplyFadeIn(a, r, fade, rate) ==
    IF FadesIn(r, fade, rate, Len(a))
        THEN ScaleSlice(a, EndSample(r, rate, Len(a)),
                        FadeEnd(r, fade, rate, Len(a)),
                        FadeInArray(r, fade, rate, Len(a)))
        ELSE a

\* the body of the loop over the sorted ranges, from range i on
RECURSIVE CutLoop(_, _, _, _, _, _, _)
CutLoop(a, mask, done, p, i, fade, rate) ==
    IF i > Len(p)
        THEN [audio |-> a, mask |-> mask, ranges |-> done, error |-> "none"]
    ELSE IF FadeOutRaises(a, p[i], fade, rate)
        THEN [audio |-> a, mask |-> mask, ranges |-> done,
              error |-> "ValueError"]
    ELSE CutLoop(ApplyFadeIn(ApplyFadeOut(a, p[i], fade, rate),
                             p[i], fade, rate),
                 ClearSlice(mask, StartSample(p[i], rate),
                            EndSample(p[i], rate, Len(a))),
                 Append(done, <<StartSample(p[i], rate),
                                EndSample(p[i], rate, Len(a))>>),
                 p, i + 1, fade, rate)

\* audio[samples_to_keep], computed half by half
RECURSIVE Filter(_, _)
Filter(a, mask) ==
    IF a = <<>> THEN <<>>
    ELSE IF Len(a) = 1 THEN (IF mask[1] THEN a ELSE <<>>)
    ELSE LET h == Len(a) \div 2
         IN  Filter(SubSeq(a, 1, h), SubSeq(mask, 1, h))
                \o Filter(SubSeq(a, h + 1, Len(a)), SubSeq(mask, h + 1, Len(a)))

CutResult(a, ts, fade, rate) ==
    CutLoop(a, [j \in 1..Len(a) |-> TRUE], <<>>, Sorted(ts), 1, fade, rate)

CutSegments ==
    /\ pc = "loaded"
    /\ \E res \in {CutResult(audio, timestamps, smooth_transition, sample_rate)} :
           /\ plan' = Sorted(timestamps)
           /\ audio' = res.audio
           /\ samples_to_keep' = res.mask
           /\ ranges' = res.ranges
           /\ error' = res.error
           /\ IF res.error = "none"
                THEN /\ processed_audio' = Filter(res.audio, res.mask)
                     /\ pc' = "cut"
                ELSE /\ processed_audio' = processed_audio
                     /\ pc' = "raised_in_cut"
    /\ UNCHANGED <<audio_file, timestamps, smooth_transition, sample_rate>>
    /\ UNCHANGED sel_vars

---------------------------------------------------------------------------
(* normalize_audio                                                         *)

\* np.max(np.abs(audio)), audio not empty, computed half by half
RECURSIVE Peak(_)
Peak(a) ==
    IF Len(a) = 1 THEN RAbs(a[1])
    ELSE LET h == Len(a) \div 2
             left == Peak(SubSeq(a, 1, h))
             right == Peak(SubSeq(a, h + 1, Len(a)))
         IN  IF RLess(left, right) THEN right ELSE left

\* np.max of a zero-size array raises ValueError
NormalizeRaises(a) == Len(a) = 0

\* as normalize_audio would be with np.max(audio) for np.max(np.abs(audio))
RECURSIVE SignedPeak(_)
SignedPeak(a) ==
    IF Len(a) = 1 THEN a[1]
    ELSE LET rest == SignedPeak(Tail(a))
         IN  IF RLess(a[1], rest) THEN rest ELSE a[1]

NormalizeResultSigned(a) ==
    IF RLess(Zero, SignedPeak(a))
        THEN [j \in 1..Len(a) |-> RDiv(a[j], SignedPeak(a))]
        ELSE a

NormalizeResult(a) ==
    IF RLess(Zero, Peak(a))
        THEN [j \in 1..Len(a) |-> RDiv(a[j], Peak(a))]
        ELSE a

NormalizeAudio ==
    /\ pc = "cut"
    /\ IF NormalizeRaises(processed_audio)
         THEN /\ error' = "ValueError"
              /\ pc' = "raised_in_normalize"
              /\ processed_audio' = processed_audio
         ELSE /\ processed_audio' = NormalizeResult(processed_audio)
              /\ pc' = "normalized"
              /\ error' = error
    /\ UNCHANGED <<audio_file, audio, timestamps, smooth_transition,
                   sample_rate, plan, ranges, samples_to_keep>>
    /\ UNCHANGED sel_vars

---------------------------------------------------------------------------
(* identify_interviewer, get_speaker_segments, get_speaker_timestamps      *)

None == "None"

Labels == {"A", "B"}

Methods == {"duration", "first", "manual", "loudest"}

\* segment.duration
Duration(seg) == seg[2] - seg[1]

\* the keys of speaker_duration, in the order the loop inserts them
RECURSIVE SpeakerOrder(_)
SpeakerOrder(segs) ==
    IF segs = <<>> THEN <<>>
    ELSE LET before == SpeakerOrder(SubSeq(segs, 1, Len(segs) - 1))
             sp == segs[Len(segs)][3]
         IN  IF \E k \in 1..Len(before) : before[k] = sp
                THEN before
                ELSE Append(before, sp)

\* speaker_duration[sp] after the loop
RECURSIVE SpeakerDuration(_, _)
SpeakerDuration(segs, sp) ==
    IF segs = <<>> THEN 0
    ELSE SpeakerDuration(SubSeq(segs, 1, Len(segs) - 1), sp)
            + (IF segs[Len(segs)][3] = sp THEN Duration(segs[Len(segs)])
               ELSE 0)

\* min(items, key = duration): the first item no later item is less than
RECURSIVE MinItem(_, _, _, _)
MinItem(keys, segs, k, best) ==
    IF k > Len(keys) THEN best
    ELSE MinItem(keys, segs, k + 1,
                 IF SpeakerDuration(segs, keys[k]) < SpeakerDuration(segs, best)
                    THEN keys[k] ELSE best)

\* as min would be if a later item of equal duration replaced the earlier
RECURSIVE MinItemLast(_, _, _, _)
MinItemLast(keys, segs, k, best) ==
    IF k > Len(keys) THEN best
    ELSE MinItemLast(keys, segs, k + 1,
                     IF SpeakerDuration(segs, keys[k]) <= SpeakerDuration(segs, best)
                        THEN keys[k] ELSE best)

MinDurationSpeakerLast(segs) ==
    MinItemLast(SpeakerOrder(segs), segs, 2, SpeakerOrder(segs)[1])

MinDurationSpeaker(segs) ==
    MinItem(SpeakerOrder(segs), segs, 2, SpeakerOrder(segs)[1])

Speakers(segs) == {segs[k][3] : k \in 1..Len(segs)}

\* as identify_interviewer would be if it tested the method before the
\* early returns for no segment and for a single speaker
IdentifyResultMethodFirst(segs, method) ==
    IF method = "manual"
        THEN [label |-> None, error |-> "NotImplementedError"]
    ELSE IF method \notin {"first", "duration"}
        THEN [label |-> None, error |-> "ValueError"]
    ELSE IF segs = <<>> THEN [label |-> "", error |-> "none"]
    ELSE IF Cardinality(Speakers(segs)) <= 1
        THEN [label |-> CHOOSE sp \in Speakers(segs) : TRUE, error |-> "none"]
    ELSE IF method = "first"
        THEN [label |-> segs[1][3], error |-> "none"]
    ELSE [label |-> MinDurationSpeaker(segs), error |-> "none"]

IdentifyResult(segs, method) ==
    IF segs = <<>> THEN [label |-> "", error |-> "none"]
    ELSE IF Cardinality(Speakers(segs)) <= 1
        THEN [label |-> CHOOSE sp \in Speakers(segs) : TRUE, error |-> "none"]
    ELSE IF method = "first"
        THEN [label |-> segs[1][3], error |-> "none"]
    ELSE IF method = "duration"
        THEN [label |-> MinDurationSpeaker(segs), error |-> "none"]
    ELSE IF method = "manual"
        THEN [label |-> None, error |-> "NotImplementedError"]
    ELSE [label |-> None, error |-> "ValueError"]

\* as the comprehension would be if it collected the segments last to first
RECURSIVE SpeakerSegmentsReversed(_, _)
SpeakerSegmentsReversed(segs, sp) ==
    IF segs = <<>> THEN <<>>
    ELSE SpeakerSegmentsReversed(Tail(segs), sp)
            \o (IF Head(segs)[3] = sp THEN <<Head(segs)>> ELSE <<>>)

\* [seg for seg, speaker in segments if speaker == speaker_id]
RECURSIVE SpeakerSegments(_, _)
SpeakerSegments(segs, sp) ==
    IF segs = <<>> THEN <<>>
    ELSE (IF Head(segs)[3] = sp THEN <<Head(segs)>> ELSE <<>>)
            \o SpeakerSegments(Tail(segs), sp)

\* [(seg.start, seg.end) for seg in interviewer_segments]
Timestamps(segs) == [k \in 1..Len(segs) |-> <<segs[k][1], segs[k][2]>>]

IdentifyInterviewer ==
    /\ sel_pc = "diarized"
    /\ target_speaker = None
    /\ \E res \in {IdentifyResult(segments, detection_method)} :
           /\ interviewer_id' = res.label
           /\ sel_error' = res.error
           /\ sel_pc' = IF res.error = "none" THEN "identified" ELSE "raised"
    /\ UNCHANGED <<segments, detection_method, target_speaker, removal>>
    /\ UNCHANGED audio_vars

UseTargetSpeaker ==
    /\ sel_pc = "diarized"
    /\ target_speaker # None
    /\ interviewer_id' = target_speaker
    /\ sel_pc' = "identified"
    /\ UNCHANGED <<segments, detection_method, target_speaker, removal,
                   sel_error>>
    /\ UNCHANGED audio_vars

ReturnTimestamps ==
    /\ sel_pc = "identified"
    /\ removal' = Timestamps(SpeakerSegments(segments, interviewer_id))
    /\ sel_pc' = "returned"
    /\ UNCHANGED <<segments, detection_method, target_speaker, interviewer_id,
                   sel_error>>
    /\ UNCHANGED audio_vars

---------------------------------------------------------------------------
(* Inputs and specifications.                                              *)

SeqsUpTo(S, n) == UNION {[1..k -> S] : k \in 0..n}

\* a buffer whose samples all differ in magnitude and alternate in sign
Tone(len) == [k \in 1..len |-> <<IF k % 2 = 0 THEN -k ELSE k, 1>>]

Buffers == {Tone(len) : len \in 0..MaxLen}

Amplitudes == {Zero, <<1, 2>>, <<-3, 4>>, One}

TimeRanges == (0..MaxTime) \X (0..MaxTime)

Segments == {seg \in (0..MaxSegTime) \X (0..MaxSegTime) \X Labels : seg[1] <= seg[2]}

\* diarize yields the tracks in chronological order
Chronological(segs) ==
    \A k \in 1..(Len(segs) - 1) :
        ~TupleLess(<<segs[k + 1][1], segs[k + 1][2]>>, <<segs[k][1], segs[k][2]>>)

Scenario3 == <<<<0, 10, "A">>, <<10, 12, "B">>, <<12, 20, "A">>>>

SegmentLists ==
    {segs \in SeqsUpTo(Segments, MaxSegs) : Chronological(segs)} \cup {Scenario3}

AudioIdle ==
    /\ audio_file = <<>>
    /\ audio = <<>>
    /\ timestamps = <<>>
    /\ smooth_transition = 0
    /\ sample_rate \in SampleRates
    /\ plan = <<>>
    /\ ranges = <<>>
    /\ samples_to_keep = <<>>
    /\ processed_audio = <<>>
    /\ pc = "idle"
    /\ error = "none"

SelIdle ==
    /\ segments = <<>>
    /\ detection_method = "duration"
    /\ target_speaker = None
    /\ interviewer_id = None
    /\ removal = <<>>
    /\ sel_pc = "idle"
    /\ sel_error = "none"

\* 10 seconds of amplitude 1.0 at 10 samples a second
ScenarioBuffer == [k \in 1..100 |-> One]

\* the ranges (3.0, 5.0) and (4.0, 6.0), in ticks
ScenarioRange1 == <<3 * TicksPerSecond, 5 * TicksPerSecond>>

ScenarioRange2 == <<4 * TicksPerSecond, 6 * TicksPerSecond>>

BoundedInputs ==
    /\ audio_file \in Buffers
    /\ timestamps \in SeqsUpTo(TimeRanges, MaxRanges)
    /\ smooth_transition \in 0..MaxFade
    /\ sample_rate \in SampleRates

ScenarioInputs ==
    /\ audio_file = ScenarioBuffer
    /\ timestamps \in {<<ScenarioRange1>>, <<ScenarioRange1, ScenarioRange2>>}
    /\ smooth_transition = 0
    /\ sample_rate = 10

\* process_audio: load, cut, normalize
Init ==
    /\ BoundedInputs \/ ScenarioInputs
    /\ audio = audio_file
    /\ plan = <<>>
    /\ ranges = <<>>
    /\ samples_to_keep = <<>>
    /\ processed_audio = <<>>
    /\ pc = "loaded"
    /\ error = "none"
    /\ SelIdle

Next == CutSegments \/ NormalizeAudio

Spec == Init /\ [][Next]_vars

\* normalize_audio on its own
InitNorm ==
    /\ audio_file = <<>>
    /\ audio = <<>>
    /\ timestamps = <<>>
    /\ smooth_transition = 0
    /\ sample_rate \in SampleRates
    /\ plan = <<>>
    /\ ranges = <<>>
    /\ samples_to_keep = <<>>
    /\ processed_audio \in SeqsUpTo(Amplitudes, MaxNormLen)
    /\ pc = "cut"
    /\ error = "none"
    /\ SelIdle

NextNorm == NormalizeAudio

SpecNorm == InitNorm /\ [][NextNorm]_vars

\* get_speaker_timestamps after diarize
InitSel ==
    /\ AudioIdle
    /\ segments \in SegmentLists
    /\ detection_method \in Methods
    /\ target_speaker \in {None, "A"}
    /\ interviewer_id = None
    /\ removal = <<>>
    /\ sel_pc = "diarized"
    /\ sel_error = "none"

NextSel == IdentifyInterviewer \/ UseTargetSpeaker \/ ReturnTimestamps

SpecSel == InitSel /\ [][NextSel]_vars

---------------------------------------------------------------------------
(* Properties.                                                             *)

Policies == {"duration", "first", "manual"}

\* a range as the data model requires it: 0 <= start <= end
Valid(r) == 0 <= r[1] /\ r[1] <= r[2]

AllValid(ts) == \A k \in 1..Len(ts) : Valid(ts[k])

\* the whole number of samples in a time that is not negative
Truncated(ticks, rate) ==
    CHOOSE n \in 0..(ticks * rate) :
        /\ n * TicksPerSecond <= ticks * rate
        /\ ticks * rate < (n + 1) * TicksPerSecond

Clamp(x, len) == IF x < 0 THEN 0 ELSE IF x > len THEN len ELSE x

\* the sample positions (from 1) covered by the union of the clamped ranges
CoveredSamples(ts, rate, len) ==
    {j \in 1..len :
        \E k \in 1..Len(ts) :
            /\ Clamp(Truncated(ts[k][1], rate), len) < j
            /\ j <= Clamp(Truncated(ts[k][2], rate), len)}

Returned == pc \in {"cut", "normalized", "raised_in_normalize"}

\* cut_segments has been called on a buffer that holds samples
CalledOnSamples == pc # "loaded" /\ Len(audio_file) > 0

\* C1: for every buffer and every list of ranges with 0 <= start <= end,
\* cut_segments returns a buffer whose length is the input length minus the
\* number of samples covered by the union of the truncated, clamped ranges
\* (stated here for the buffers that hold at least one sample).
C1_LengthConservation ==
    (CalledOnSamples /\ AllValid(timestamps)) =>
        /\ pc # "raised_in_cut"
        /\ Len(processed_audio) =
             Len(audio_file)
               - Cardinality(CoveredSamples(timestamps, sample_rate,
                                            Len(audio_file)))

\* Whenever cut_segments does return, the length is conserved.
CutLengthWhenReturned ==
    (Returned /\ AllValid(timestamps)) =>
        Len(processed_audio) =
            Len(audio_file)
              - Cardinality(CoveredSamples(timestamps, sample_rate,
                                           Len(audio_file)))

\* C2: for every list of ranges with 0 <= start <= end, a start or an end
\* past the end of the buffer included, and every fade duration >= 0,
\* cut_segments completes without raising an error (stated here for the
\* buffers that hold at least one sample).
C2_OutOfBoundsClamped ==
    (CalledOnSamples /\ AllValid(timestamps)) => Returned

\* C3: when the ranges cover the whole of a buffer that holds samples, the
\* cut followed by normalization completes without error and yields a
\* zero-length buffer.
C3_EmptyResultValid ==
    ( /\ pc \in {"normalized", "raised_in_normalize"}
      /\ Len(audio_file) > 0
      /\ CoveredSamples(timestamps, sample_rate, Len(audio_file))
            = 1..Len(audio_file) ) =>
        (pc = "normalized" /\ processed_audio = <<>>)

\* the largest absolute sample of a buffer that is not empty
PeakOf(a) ==
    CHOOSE p \in {RAbs(a[j]) : j \in 1..Len(a)} :
        \A j \in 1..Len(a) : ~RLess(p, RAbs(a[j]))

\* C4: normalize_audio on a non-empty buffer returns a buffer of the same
\* length; when some sample is not zero every output sample times the input
\* peak is the input sample and the largest absolute output sample is 1;
\* when all samples are zero the output is the input.
C4_NormalizationBound ==
    [][(pc = "cut" /\ Len(processed_audio) > 0) =>
        /\ pc' = "normalized"
        /\ Len(processed_audio') = Len(processed_audio)
        /\ IF \E j \in 1..Len(processed_audio) : processed_audio[j] # Zero
             THEN /\ \A j \in 1..Len(processed_audio) :
                        RMul(processed_audio'[j], PeakOf(processed_audio))
                            = processed_audio[j]
                  /\ PeakOf(processed_audio') = One
             ELSE processed_audio' = processed_audio]_vars

\* C4 witness: (1/2, -3/4) has been normalized to (2/3, -1).
C4_Witness ==
    /\ pc = "normalized"
    /\ processed_audio = <<(<<2, 3>>), (<<-1, 1>>)>>

\* C5: identify_interviewer with a method outside {duration, first, manual}
\* fails with an error and returns no speaker label, whatever the segments.
C5_UnknownPolicyFails ==
    ( /\ target_speaker = None
      /\ detection_method \notin Policies
      /\ sel_pc # "diarized" ) =>
        /\ sel_pc = "raised"
        /\ sel_error # "none"
        /\ interviewer_id = None

\* C6: policy manual with no target speaker ends in an error other than the
\* unknown-policy error and resolves no speaker, whatever the segments.
C6_MissingTargetFails ==
    ( /\ target_speaker = None
      /\ detection_method = "manual"
      /\ sel_pc # "diarized" ) =>
        /\ sel_pc = "raised"
        /\ sel_error \notin {"none", "ValueError"}
        /\ interviewer_id = None

\* C7: a range with start > end given to cut_segments is rejected, and the
\* buffer is left untouched: no sample tapered, none removed (stated here
\* for the buffers that hold at least one sample).
C7_InvalidRangeRejected ==
    (CalledOnSamples /\ ~AllValid(timestamps)) =>
        /\ pc = "raised_in_cut"
        /\ audio = audio_file
        /\ \A j \in 1..Len(samples_to_keep) : samples_to_keep[j]

\* total duration of a speaker, summed over the positions that carry it
RECURSIVE SumDurations(_, _)
SumDurations(segs, K) ==
    IF K = {} THEN 0
    ELSE LET k == CHOOSE k \in K : TRUE
         IN  (segs[k][2] - segs[k][1]) + SumDurations(segs, K \ {k})

TotalDuration(segs, sp) ==
    SumDurations(segs, {k \in 1..Len(segs) : segs[k][3] = sp})

FirstPosition(segs, sp) ==
    CHOOSE k \in 1..Len(segs) :
        segs[k][3] = sp /\ \A j \in 1..(k - 1) : segs[j][3] # sp

DurationPolicyRan ==
    /\ target_speaker = None
    /\ detection_method = "duration"
    /\ Cardinality(Speakers(segments)) >= 2
    /\ sel_pc \in {"identified", "returned"}

\* C8: with at least two distinct labels, policy duration selects a label of
\* least total duration, the one appearing first in the list among those of
\* least total; for (0,10,A),(10,12,B),(12,20,A) the ranges are ((10,12)).
C8_DurationPolicy ==
    DurationPolicyRan =>
        /\ interviewer_id \in Speakers(segments)
        /\ \A sp \in Speakers(segments) :
              /\ TotalDuration(segments, interviewer_id)
                    <= TotalDuration(segments, sp)
              /\ TotalDuration(segments, sp)
                    = TotalDuration(segments, interviewer_id)
                 => FirstPosition(segments, interviewer_id)
                        <= FirstPosition(segments, sp)
        /\ (segments = Scenario3 /\ sel_pc = "returned")
              => removal = <<(<<10, 12>>)>>

\* C8 witness: two speakers tie, and B, who speaks first, is selected and
\* its ranges returned.
C8_Witness ==
    /\ DurationPolicyRan
    /\ sel_pc = "returned"
    /\ TotalDuration(segments, "A") = TotalDuration(segments, "B")
    /\ TotalDuration(segments, "A") > 0
    /\ segments[1][3] = "B"
    /\ interviewer_id = "B"
    /\ removal # <<>>

\* C9: the ranges cut_segments processes are sorted and merged: consecutive
\* processed ranges satisfy plan[i].end <= plan[i+1].start (stated here for
\* the buffers that hold at least one sample).
C9_PlanMerged ==
    (Returned /\ Len(audio_file) > 0 /\ AllValid(timestamps)) =>
        \A i \in 1..(Len(plan) - 1) : plan[i][2] <= plan[i + 1][1]

\* C10: after cut_segments returns, every sample of the buffer the caller
\* passed in has the value it had before the call.
C10_InputNotMutated ==
    Returned => audio = audio_file

\* the samples at the positions no range covers, in their original order
Retained(a, ts, rate) ==
    LET K == (1..Len(a)) \ CoveredSamples(ts, rate, Len(a))
    IN  [i \in 1..Cardinality(K) |->
            a[CHOOSE j \in K : Cardinality({x \in K : x < j}) = i - 1]]

NoFadeOrNoRange == smooth_transition = 0 \/ timestamps = <<>>

\* C11: with fade duration 0, or with no range, cut_segments returns exactly
\* the samples outside every range, in order and unchanged; with no range
\* the output is the input; 100 samples of 1.0 at 10 samples a second with
\* the range (3,5) and fade 0 give 80 samples, all 1.0.
C11_NoFadeExactCut ==
    (pc # "loaded" /\ NoFadeOrNoRange) =>
        /\ pc # "raised_in_cut"
        /\ pc = "cut" =>
              /\ processed_audio = Retained(audio_file, timestamps, sample_rate)
              /\ timestamps = <<>> => processed_audio = audio_file
              /\ (audio_file = ScenarioBuffer /\ timestamps = <<ScenarioRange1>>)
                    => processed_audio = [k \in 1..80 |-> One]

\* C11 witness: with fade 0, two ranges have removed the two middle samples
\* of a four-sample buffer and left the outer two as they were.
C11_Witness ==
    /\ pc = "cut"
    /\ smooth_transition = 0
    /\ Len(timestamps) = 2
    /\ Len(audio_file) = 4
    /\ processed_audio = <<audio_file[1], audio_file[4]>>

\* sample bounds and fade length of the only range of the list
OnlyStart == Truncated(timestamps[1][1], sample_rate)

OnlyEnd == Truncated(timestamps[1][2], sample_rate)

FadeLength == Truncated(smooth_transition, sample_rate)

SingleInteriorRange ==
    /\ Len(timestamps) = 1
    /\ 0 <= timestamps[1][1] /\ 0 <= timestamps[1][2]
    /\ 0 < OnlyStart /\ OnlyStart <= OnlyEnd /\ OnlyEnd < Len(audio_file)
    /\ FadeLength > 0

FadeOutLength == IF FadeLength < OnlyStart THEN FadeLength ELSE OnlyStart

FadeInLength ==
    IF FadeLength < Len(audio_file) - OnlyEnd
        THEN FadeLength ELSE Len(audio_file) - OnlyEnd

\* the factor by which the call changed the sample at position j (from 1)
Gain(j) == RDiv(audio[j], audio_file[j])

\* the k-th of n steps (k from 0) of a straight line from 1 down to 0
DownRamp(k, n) == IF n = 1 THEN One ELSE Rat(n - 1 - k, n - 1)

\* the k-th of n steps (k from 0) of a straight line from 0 up to 1
UpRamp(k, n) == IF n = 1 THEN Zero ELSE Rat(k, n - 1)

\* C12: for a single range with sample bounds 0 < s <= e < L and fade length
\* F > 0, exactly the min(F, s) samples ending at s-1 are multiplied by a
\* straight ramp from 1 to 0 and exactly the min(F, L-e) samples starting at
\* e by a straight ramp from 0 to 1; no other sample changes; a ramp of more
\* than one sample is monotonic with the values 1 and 0 at its ends, and a
\* ramp of one sample is 1 for the fade-out and 0 for the fade-in.
C12_TaperShape ==
    (pc # "loaded" /\ SingleInteriorRange) =>
        /\ pc # "raised_in_cut"
        /\ \A j \in 1..Len(audio_file) :
              IF OnlyStart - FadeOutLength < j /\ j <= OnlyStart
                THEN audio[j] = RMul(audio_file[j],
                                     DownRamp(j - 1 - (OnlyStart - FadeOutLength),
                                              FadeOutLength))
              ELSE IF OnlyEnd < j /\ j <= OnlyEnd + FadeInLength
                THEN audio[j] = RMul(audio_file[j],
                                     UpRamp(j - 1 - OnlyEnd, FadeInLength))
              ELSE audio[j] = audio_file[j]
        /\ FadeOutLength > 1 =>
              /\ Gain(OnlyStart - FadeOutLength + 1) = One
              /\ Gain(OnlyStart) = Zero
              /\ \A j \in (OnlyStart - FadeOutLength + 1)..(OnlyStart - 1) :
                    RLess(Gain(j + 1), Gain(j))
        /\ FadeInLength > 1 =>
              /\ Gain(OnlyEnd + 1) = Zero
              /\ Gain(OnlyEnd + FadeInLength) = One
              /\ \A j \in (OnlyEnd + 1)..(OnlyEnd + FadeInLength - 1) :
                    RLess(Gain(j), Gain(j + 1))
        /\ FadeOutLength = 1 => Gain(OnlyStart) = One
        /\ FadeInLength = 1 => Gain(OnlyEnd + 1) = Zero

\* C12 witness: a fade-out of three samples (1, 1/2, 0) ends at the start of
\* the range and the one sample left after it has been faded in from 0.
C12_Witness ==
    /\ pc = "cut"
    /\ SingleInteriorRange
    /\ FadeOutLength = 3
    /\ FadeInLength = 1
    /\ Gain(OnlyStart - 1) = <<1, 2>>
    /\ audio # audio_file

\* identify_interviewer has been called with a policy of the closed set
PolicyRan ==
    /\ target_speaker = None
    /\ detection_method \in Policies
    /\ sel_pc # "diarized"

\* the (start, end) of every segment, one per segment, in list order
AllRanges(segs) == [k \in 1..Len(segs) |-> <<segs[k][1], segs[k][2]>>]

\* C13: with no segment identify_interviewer selects no speaker and
\* get_speaker_timestamps emits no range; with exactly one distinct label
\* that label is selected whatever the policy, and every segment's range is
\* emitted.
C13_DegenerateSpeakerSets ==
    PolicyRan =>
        /\ segments = <<>> =>
              /\ sel_pc # "raised"
              /\ interviewer_id = ""
              /\ sel_pc = "returned" => removal = <<>>
        /\ Cardinality(Speakers(segments)) = 1 =>
              /\ sel_pc # "raised"
              /\ interviewer_id \in Speakers(segments)
              /\ sel_pc = "returned" => removal = AllRanges(segments)

\* C13 witness: policy manual, three segments of the single speaker B, and
\* all three ranges returned.
C13_Witness ==
    /\ PolicyRan
    /\ detection_method = "manual"
    /\ Speakers(segments) = {"B"}
    /\ Len(segments) = 3
    /\ interviewer_id = "B"
    /\ sel_pc = "returned"
    /\ Len(removal) = 3

\* the positions (from 1) of the segments that carry a label
PositionsOf(segs, sp) == {k \in 1..Len(segs) : segs[k][3] = sp}

\* the ranges of the segments that carry a label, in list order
RangesOf(segs, sp) ==
    LET K == PositionsOf(segs, sp)
    IN  [i \in 1..Cardinality(K) |->
            LET k == CHOOSE j \in K : Cardinality({x \in K : x < j}) = i - 1
            IN  <<segs[k][1], segs[k][2]>>]

FirstPolicyRan ==
    /\ target_speaker = None
    /\ detection_method = "first"
    /\ Cardinality(Speakers(segments)) >= 2
    /\ sel_pc # "diarized"

\* C14: with at least two distinct labels policy first selects the label of
\* the first segment, and the ranges emitted are exactly the (start, end) of
\* every segment carrying that label, one per segment, in list order,
\* unmerged, and no range of another label.
C14_FirstPolicyProjection ==
    FirstPolicyRan =>
        /\ sel_pc # "raised"
        /\ interviewer_id = segments[1][3]
        /\ sel_pc = "returned" =>
              /\ removal = RangesOf(segments, segments[1][3])
              /\ Len(removal) = Cardinality(PositionsOf(segments, interviewer_id))

\* C14 witness: the first speaker holds two overlapping segments with
\* different ranges, both are returned apart and in order, and the other
\* speaker's segment is not.
C14_Witness ==
    /\ FirstPolicyRan
    /\ sel_pc = "returned"
    /\ Len(segments) = 3
    /\ Len(removal) = 2
    /\ removal[1] # removal[2]
    /\ removal[2][1] < removal[1][2]

\* the merged plan of a sorted list: a range that starts at or before the
\* end of the one before it is joined to it
RECURSIVE MergeSorted(_, _)
MergeSorted(acc, rest) ==
    IF rest = <<>> THEN acc
    ELSE IF acc # <<>> /\ Head(rest)[1] <= acc[Len(acc)][2]
        THEN MergeSorted(
                [acc EXCEPT ![Len(acc)] =
                    <<acc[Len(acc)][1],
                      IF Head(rest)[2] > acc[Len(acc)][2]
                        THEN Head(rest)[2] ELSE acc[Len(acc)][2]>>],
                Tail(rest))
        ELSE MergeSorted(Append(acc, Head(rest)), Tail(rest))

MergedPlan(ts) == MergeSorted(<<>>, Sorted(ts))

\* every range ends inside the buffer
WithinBuffer(ts, rate, len) ==
    \A k \in 1..Len(ts) : Truncated(ts[k][2], rate) <= len

\* what cut_segments returns for a list of ranges on the loaded buffer
CutOutput(ts) ==
    LET res == CutResult(audio_file, ts, smooth_transition, sample_rate)
    IN  Filter(res.audio, res.mask)

\* C15: for ranges within the buffer and a fade duration > 0, cut_segments
\* returns the same samples for the raw list as for its merged plan (stated
\* here for the buffers that hold at least one sample).
C15_OverlapSameResult ==
    ( /\ pc = "cut"
      /\ Len(audio_file) > 0
      /\ smooth_transition > 0
      /\ AllValid(timestamps)
      /\ WithinBuffer(timestamps, sample_rate, Len(audio_file)) ) =>
        processed_audio = CutOutput(MergedPlan(timestamps))

====
